---- MODULE Spec2Model ----
(***************************************************************************)
(* Model of github.com/regiocom/healthchecker (checker.go): the probe      *)
(* registry of a Checker, the concurrent fan-out of runProbes, the two     *)
(* handlers of serverMux, and the ServeHTTP / ServeHTTPBackground /        *)
(* Shutdown lifecycle of the Checker's http.Server.                        *)
(*                                                                         *)
(* The Checker is a library; the program around it is one of these clients:*)
(*   "handler": mounts checker.serverMux() on a server of its own, as      *)
(*              checker_test.go does with httptest.NewServer, and sends    *)
(*              requests to it while it registers probes;                  *)
(*   "burst":   mounts checker.serverMux() as well, registers its probes   *)
(*              and then sends all its requests at once;                   *)
(*   "server":  runs the Checker's own server with ServeHTTP,              *)
(*              ServeHTTPBackground and Shutdown, and sends requests to    *)
(*              that server.                                               *)
(***************************************************************************)
EXTENDS Naturals, Sequences, FiniteSets, TLC

\* ------------------------------------------------------------------------
\* Bounds of the model
\* ------------------------------------------------------------------------
\* requests sent by the "handler" client, and by the "server" client
MaxRequests == 2
MaxServerRequests == 1
\* readiness evaluations (runProbes) in flight at the same time
MaxInFlight == 1
\* calls of ServeHTTP / ServeHTTPBackground, and of Shutdown / the trigger
MaxServeCalls == 2
MaxShutdownCalls == 1

Names == {"db", "cache"}
ServerNames == {"db"}
Errors == {"unhealthy"}
Addrs == {":8080", ":9090", "bad"}
ValidAddrs == {":8080", ":9090"}

Requests == 1..MaxRequests
ServeCalls == 1..MaxServeCalls
ShutdownCalls == 1..MaxShutdownCalls

\* ------------------------------------------------------------------------
\* Values
\* ------------------------------------------------------------------------
NoErr == "<nil>"
NoOne == "-"
NilServer == 0
Direct == 0
StatusOK == 200
StatusServiceUnavailable == 503
NoBody == [none |-> TRUE]
StatusNotFound == 404
\* the body of the mux's answer to a path with no handler
NotFoundBody == [text |-> "404 page not found"]
\* the paths serverMux registers a handler for, and the paths clients ask for
Patterns == {"/alive", "/ready"}
Paths == Patterns \cup {"/.well-known/alive", "/.well-known/ready", "/healthy"}
ErrServerClosed == "http: Server closed"
ErrBind == "listen: bind failed"
ErrAccept == "accept: i/o failure"
ErrRunning == "server is alrady running"
ErrListen == "could not listen"
ErrDeadline == "context deadline exceeded"

NilMap == [isNil |-> TRUE, entries |-> [n \in {} |-> 0]]

IdleG == [pc |-> "none", probe |-> 0, calls |-> 0, err |-> NoErr, old |-> <<>>]

IdleReq ==
  [pc |-> "idle", route |-> "", via |-> Direct, keys0 |-> {}, raced |-> FALSE,
   g |-> [n \in Names |-> IdleG], wg |-> 0, m |-> NoOne,
   reasons |-> <<>>, status |-> 0, body |-> NoBody]

NoServer == [addr |-> "", inShutdown |-> FALSE, listening |-> FALSE]

IdleServe == [pc |-> "idle", addr |-> "", bg |-> FALSE, on |-> NilServer,
              lerr |-> NoErr, ret |-> "none"]

\* what a VaultHealthReporter's Health() can hand back: the error and the
\* fields of the vault.HealthResponse the probe reads
HealthErrs == {NoErr, "connection refused"}
Healths == [err : HealthErrs, initialized : BOOLEAN, sealed : BOOLEAN, standby : BOOLEAN]
\* out of a probe that was not called yet
NotCalled == "-"
\* a program that uses no VaultProbe
NoVault ==
  [health |-> [err |-> NoErr, initialized |-> TRUE, sealed |-> FALSE, standby |-> FALSE],
   asked |-> [err |-> NoErr, initialized |-> TRUE, sealed |-> FALSE, standby |-> FALSE],
   out |-> NotCalled]

IdleShut == [pc |-> "idle", trig |-> FALSE, on |-> NilServer, ret |-> "none"]

VARIABLES
  mode,             \* the client program: "handler", "burst", "server" or "vault"
  vault,            \* the Vault health reporter and the latest call of its probe
  readinessProbes,  \* Checker.readinessProbes: the registry map (nil until the first Add)
  addRes,           \* outcome of the latest AddReadinessProbe call
  req,              \* the HTTP requests handled by the handlers of serverMux
  server,           \* Checker.server: NilServer or the http.Server a ServeHTTP call created
  srv,              \* the http.Server objects, by the ServeHTTP call that created them
  serve,            \* the calls of ServeHTTP (foreground or in the background goroutine)
  shut,             \* the calls of Shutdown (direct or through the shutdown trigger)
  proc              \* the process: "running", "panicked" or "fatal"

vars == <<mode, vault, readinessProbes, addRes, req, server, srv, serve, shut, proc>>

life == <<server, srv, serve, shut>>

\* ------------------------------------------------------------------------
\* Pure helpers
\* ------------------------------------------------------------------------
Keys(mp) == IF mp.isNil THEN {} ELSE DOMAIN mp.entries

\* fmt.Sprintf("%v: %v", service, err)
Sprintf(service, err) == service \o ": " \o err

\* json.Marshal of a readyResponse whose `reasons` lacks omitempty
MarshalReadyNoOmit(ok, reasons) == [ready |-> ok, reasons |-> reasons]

\* json.Marshal of readyResponse: `reasons` carries omitempty
MarshalReady(ok, reasons) ==
  IF Len(reasons) = 0 THEN [ready |-> ok]
  ELSE [ready |-> ok, reasons |-> reasons]

\* http.ServeMux: a pattern that does not end in a slash matches that path
\* only; "" stands for no match
Match(path) == IF path \in Patterns THEN path ELSE ""

\* the literal body written by the /alive handler
AliveBody == [alive |-> TRUE]

Range(s) == {s[i] : i \in 1..Len(s)}

Running == proc = "running"

\* ------------------------------------------------------------------------
\* The client program
\* ------------------------------------------------------------------------
\* the clients that mount serverMux() on a server of their own
OwnServer == mode \in {"handler", "burst"}

\* the names the client registers probes under
ClientNames == IF OwnServer THEN Names ELSE ServerNames

\* the "server" client registers its probes before it serves, the "burst"
\* client before it sends its requests; the "handler" client registers at any
\* time, also while requests are handled
MayRegister ==
  \/ mode = "handler"
  \/ mode = "burst" /\ \A r \in Requests : req[r].pc = "idle"
  \/ ~OwnServer /\ \A c \in ServeCalls : serve[c].pc = "idle"

\* every AddReadinessProbe call passes a closure of its own
FreshProbe == Cardinality(Keys(readinessProbes)) + 1

\* request slots are used in order, each once
MayStart(r) ==
  /\ req[r].pc = "idle"
  /\ \A q \in Requests : q < r => req[q].pc # "idle"
  /\ r <= (IF OwnServer THEN MaxRequests ELSE MaxServerRequests)

\* where a request can be sent: to the client's own server around serverMux(),
\* or to a listening server of the Checker
Reachable(via) ==
  IF OwnServer THEN via = Direct
  ELSE via \in ServeCalls /\ srv[via].listening

\* the readiness evaluations in flight
InFlight == {r \in Requests : req[r].pc \in {"range", "wait"}}

\* the evaluations the client lets run at once: the "burst" client sends all
\* its requests without waiting for an answer
InFlightLimit == IF mode = "burst" THEN MaxRequests ELSE MaxInFlight

\* the requests a server is still handling
Active(s) == {r \in Requests : req[r].via = s /\ req[r].pc \notin {"idle", "done"}}

\* ------------------------------------------------------------------------
\* Checker.AddReadinessProbe
\* ------------------------------------------------------------------------
\* the requests whose runProbes is ranging over the live map right now
Ranging == {r \in Requests : req[r].pc = "range"}

\* a registration that lacks the alreadyRegistered test and overwrites
AddReadinessProbeOverwrite(service, probe) ==
  /\ Running
  /\ readinessProbes' =
       [isNil |-> FALSE,
        entries |-> [n \in Keys(readinessProbes) \cup {service} |->
                       IF n = service THEN probe ELSE readinessProbes.entries[n]]]
  /\ addRes' = [service |-> service, probe |-> probe, panicked |-> FALSE]
  /\ req' = [r \in Requests |->
               IF r \in Ranging THEN [req[r] EXCEPT !.raced = TRUE] ELSE req[r]]
  /\ proc' = proc
  /\ UNCHANGED <<mode, vault, life>>

AddReadinessProbe(service, probe) ==
  /\ Running
  /\ IF service \in Keys(readinessProbes)
     THEN /\ proc' = "panicked"
          /\ addRes' = [service |-> service, probe |-> probe, panicked |-> TRUE]
          /\ UNCHANGED <<readinessProbes, req>>
     ELSE /\ readinessProbes' =
               [isNil |-> FALSE,
                entries |-> [n \in Keys(readinessProbes) \cup {service} |->
                               IF n = service THEN probe ELSE readinessProbes.entries[n]]]
          /\ addRes' = [service |-> service, probe |-> probe, panicked |-> FALSE]
          \* a write to the map while a runProbes loop iterates it is a data race
          /\ req' = [r \in Requests |->
                       IF r \in Ranging THEN [req[r] EXCEPT !.raced = TRUE] ELSE req[r]]
          \* the runtime may detect the race and abort the process
          /\ \/ proc' = proc
             \/ Ranging # {} /\ proc' = "fatal"
  /\ UNCHANGED <<mode, vault, life>>

\* ------------------------------------------------------------------------
\* serverMux: the /alive handler
\* ------------------------------------------------------------------------
\* an /alive handler that answers by the state of the registry
HandleAliveByRegistry(r, via) ==
  /\ Running
  /\ MayStart(r)
  /\ Reachable(via)
  /\ req' = [req EXCEPT ![r] =
               [@ EXCEPT !.pc = "done", !.route = "/alive", !.via = via,
                         !.status = IF Keys(readinessProbes) = {} THEN StatusOK
                                    ELSE StatusServiceUnavailable,
                         !.body = [alive |-> Keys(readinessProbes) = {}]]]
  /\ UNCHANGED <<mode, vault, readinessProbes, addRes, proc, life>>

HandleAlive(r, via) ==
  /\ Running
  /\ Match("/alive") = "/alive"
  /\ MayStart(r)
  /\ Reachable(via)
  /\ req' = [req EXCEPT ![r] = [@ EXCEPT !.pc = "done", !.route = "/alive", !.via = via,
                                          !.status = StatusOK, !.body = AliveBody]]
  /\ UNCHANGED <<mode, vault, readinessProbes, addRes, proc, life>>

\* a path with no handler in the mux: the mux answers 404 itself
HandleNotFound(r, via, path) ==
  /\ Running
  /\ Match(path) = ""
  /\ MayStart(r)
  /\ Reachable(via)
  /\ req' = [req EXCEPT ![r] = [@ EXCEPT !.pc = "done", !.route = path, !.via = via,
                                          !.status = StatusNotFound,
                                          !.body = NotFoundBody]]
  /\ UNCHANGED <<mode, vault, readinessProbes, addRes, proc, life>>

\* ------------------------------------------------------------------------
\* serverMux: the /ready handler and runProbes
\* ------------------------------------------------------------------------
\* the handler reads h.readinessProbes and runProbes starts to range over it;
\* ranging over a nil map makes no iteration
HandleReady(r, via) ==
  /\ Running
  /\ Match("/ready") = "/ready"
  /\ MayStart(r)
  /\ Cardinality(InFlight) < InFlightLimit
  /\ Reachable(via)
  /\ req' = [req EXCEPT ![r] =
               [@ EXCEPT !.pc = IF readinessProbes.isNil THEN "wait" ELSE "range",
                         !.route = "/ready",
                         !.via = via,
                         !.keys0 = Keys(readinessProbes)]]
  /\ UNCHANGED <<mode, vault, readinessProbes, addRes, proc, life>>

\* the entries the loop of request r has produced so far
Visited(r) == {n \in Names : req[r].g[n].pc # "none"}

\* a loop that calls the probes one after the other
RangeNextSequential(r, n) ==
  /\ Running
  /\ req[r].pc = "range"
  /\ n \in Keys(readinessProbes) \ Visited(r)
  /\ \A m \in Names : req[r].g[m].pc \in {"none", "done"}
  /\ req' = [req EXCEPT ![r] =
               [@ EXCEPT !.wg = @ + 1,
                         !.g[n] = [IdleG EXCEPT !.pc = "probing",
                                                !.calls = req[r].g[n].calls + 1,
                                                !.probe = readinessProbes.entries[n]]]]
  /\ UNCHANGED <<mode, vault, readinessProbes, addRes, proc, life>>

\* one iteration of the loop: wg.Add(1) and the go statement; the goroutine
\* invokes its probe
RangeNext(r, n) ==
  /\ Running
  /\ req[r].pc = "range"
  /\ n \in Keys(readinessProbes) \ Visited(r)
  /\ req' = [req EXCEPT ![r] =
               [@ EXCEPT !.wg = @ + 1,
                         !.g[n] = [IdleG EXCEPT !.pc = "probing",
                                                !.calls = req[r].g[n].calls + 1,
                                                !.probe = readinessProbes.entries[n]]]]
  /\ UNCHANGED <<mode, vault, readinessProbes, addRes, proc, life>>

\* the loop ends once every entry present when it began was produced
\* (an entry inserted during the iteration may be skipped)
RangeEnd(r) ==
  /\ Running
  /\ req[r].pc = "range"
  /\ req[r].keys0 \subseteq Visited(r)
  /\ req' = [req EXCEPT ![r].pc = "wait"]
  /\ UNCHANGED <<mode, vault, readinessProbes, addRes, proc, life>>

\* probe() returns err
ProbeReturn(r, n, e) ==
  /\ Running
  /\ req[r].g[n].pc = "probing"
  /\ req' = [req EXCEPT ![r].g[n].err = e,
                        ![r].g[n].pc = IF e = NoErr THEN "exit" ELSE "lock"]
  /\ UNCHANGED <<mode, vault, readinessProbes, addRes, proc, life>>

\* probe() blocks for good: there is no timeout and no cancellation
ProbeHangs(r, n) ==
  /\ Running
  /\ req[r].g[n].pc = "probing"
  /\ req' = [req EXCEPT ![r].g[n].pc = "hung"]
  /\ UNCHANGED <<mode, vault, readinessProbes, addRes, proc, life>>

\* the append without the mutex: the read of the slice waits for nobody
MLockNoMutex(r, n) ==
  /\ Running
  /\ req[r].g[n].pc = "lock"
  /\ req' = [req EXCEPT ![r].m = n,
                        ![r].g[n].old = req[r].reasons,
                        ![r].g[n].pc = "write"]
  /\ UNCHANGED <<mode, vault, readinessProbes, addRes, proc, life>>

\* m.Lock(), then append(reasons, ...) reads the shared slice
MLock(r, n) ==
  /\ Running
  /\ req[r].g[n].pc = "lock"
  /\ req[r].m = NoOne
  /\ req' = [req EXCEPT ![r].m = n,
                        ![r].g[n].old = req[r].reasons,
                        ![r].g[n].pc = "write"]
  /\ UNCHANGED <<mode, vault, readinessProbes, addRes, proc, life>>

\* an append to one reasons slice that all evaluations share
AppendWriteShared(r, n) ==
  /\ Running
  /\ req[r].g[n].pc = "write"
  /\ req' = [q \in Requests |->
               IF q = r
               THEN [req[r] EXCEPT !.reasons = Append(req[r].g[n].old,
                                                      Sprintf(n, req[r].g[n].err)),
                                   !.m = NoOne,
                                   !.g[n].old = <<>>,
                                   !.g[n].pc = "exit"]
               ELSE IF q \in InFlight
               THEN [req[q] EXCEPT !.reasons = Append(@, Sprintf(n, req[r].g[n].err))]
               ELSE req[q]]
  /\ UNCHANGED <<mode, vault, readinessProbes, addRes, proc, life>>

\* reasons = append(...) writes the shared slice, then m.Unlock()
AppendWrite(r, n) ==
  /\ Running
  /\ req[r].g[n].pc = "write"
  /\ req' = [req EXCEPT ![r].reasons = Append(req[r].g[n].old, Sprintf(n, req[r].g[n].err)),
                        ![r].m = NoOne,
                        ![r].g[n].old = <<>>,
                        ![r].g[n].pc = "exit"]
  /\ UNCHANGED <<mode, vault, readinessProbes, addRes, proc, life>>

\* wg.Done()
WgDone(r, n) ==
  /\ Running
  /\ req[r].g[n].pc = "exit"
  /\ req' = [req EXCEPT ![r].wg = @ - 1, ![r].g[n].pc = "done"]
  /\ UNCHANGED <<mode, vault, readinessProbes, addRes, proc, life>>

\* a runProbes that answers from the latest answered evaluation, when there is one
runProbesCached(r) ==
  LET answered == {q \in Requests : req[q].pc = "done" /\ req[q].route = "/ready"}
  IN IF answered = {} THEN <<Len(req[r].reasons) = 0, req[r].reasons>>
     ELSE LET q == CHOOSE q \in answered : TRUE
          IN <<req[q].body.ready,
               IF "reasons" \in DOMAIN req[q].body THEN req[q].body.reasons ELSE <<>> >>

\* what runProbes returns once wg.Wait() is over
runProbes(r) == <<Len(req[r].reasons) = 0, req[r].reasons>>

\* the status the /ready handler answers with
ReadyStatus(ready) == IF ~ready THEN StatusServiceUnavailable ELSE StatusOK

\* a runProbes that returns on the first failure it has collected
RespondOnFailure(r) ==
  /\ Running
  /\ req[r].pc = "wait"
  /\ req[r].wg = 0 \/ Len(req[r].reasons) > 0
  /\ req' = [req EXCEPT ![r] = [IdleReq EXCEPT !.pc = "done",
                                               !.route = req[r].route,
                                               !.via = req[r].via,
                                               !.keys0 = req[r].keys0,
                                               !.status = ReadyStatus(Len(req[r].reasons) = 0),
                                               !.body = MarshalReady(Len(req[r].reasons) = 0,
                                                                     req[r].reasons)]]
  /\ UNCHANGED <<mode, vault, readinessProbes, addRes, proc, life>>

\* a /ready handler that answers without wg.Wait()
RespondNoWait(r) ==
  /\ Running
  /\ req[r].pc = "wait"
  /\ req' = [req EXCEPT ![r] = [IdleReq EXCEPT !.pc = "done",
                                               !.route = req[r].route,
                                               !.via = req[r].via,
                                               !.keys0 = req[r].keys0,
                                               !.status = ReadyStatus(Len(req[r].reasons) = 0),
                                               !.body = MarshalReady(Len(req[r].reasons) = 0,
                                                                     req[r].reasons)]]
  /\ UNCHANGED <<mode, vault, readinessProbes, addRes, proc, life>>

\* wg.Wait() returns, runProbes returns (its goroutines and locals are gone),
\* the handler writes status and body
Respond(r) ==
  /\ Running
  /\ req[r].pc = "wait"
  /\ req[r].wg = 0
  /\ LET ok == runProbes(r)[1]
         reasons == runProbes(r)[2]
     IN req' = [req EXCEPT ![r] = [IdleReq EXCEPT !.pc = "done",
                                                  !.route = req[r].route,
                                                  !.via = req[r].via,
                                                  !.keys0 = req[r].keys0,
                                                  !.status = ReadyStatus(ok),
                                                  !.body = MarshalReady(ok, reasons)]]
  /\ UNCHANGED <<mode, vault, readinessProbes, addRes, proc, life>>

\* ------------------------------------------------------------------------
\* Checker.ServeHTTP and Checker.ServeHTTPBackground
\* ------------------------------------------------------------------------
\* call slots are used in order, each once; only the "server" client serves
MayServe(c) ==
  /\ mode = "server"
  /\ serve[c].pc = "idle"
  /\ \A d \in ServeCalls : d < c => serve[d].pc # "idle"

\* log.Fatalf in the background goroutine and in the shutdown trigger
Fatal(isBg, err) == IF isBg /\ err # NoErr THEN "fatal" ELSE proc

\* a ServeHTTP that does not except http.ErrServerClosed
ServeResultAnyErr(lerr) == IF lerr # NoErr THEN ErrListen ELSE NoErr

\* what ServeHTTP returns for the error of ListenAndServe
ServeResult(lerr) ==
  IF lerr # NoErr /\ lerr # ErrServerClosed THEN ErrListen ELSE NoErr

\* net.Listen succeeds on a valid address no listener of the process holds
Bindable(addr) ==
  /\ addr \in ValidAddrs
  /\ \A c \in ServeCalls : ~(srv[c].listening /\ srv[c].addr = addr)

\* ServeHTTPBackground: the go statement; the trigger is returned to the caller
ServeHTTPBackground(c, addr) ==
  /\ Running
  /\ MayServe(c)
  /\ serve' = [serve EXCEPT ![c] = [@ EXCEPT !.pc = "spawned", !.addr = addr, !.bg = TRUE]]
  /\ UNCHANGED <<mode, vault, readinessProbes, addRes, req, server, srv, shut, proc>>

\* a ServeHTTP without the test of h.server
ServeHTTPNoCheck(c, addr) ==
  /\ Running
  /\ \/ MayServe(c)
     \/ serve[c].pc = "spawned" /\ addr = serve[c].addr
  /\ serve' = [serve EXCEPT ![c] = [@ EXCEPT !.pc = "new", !.addr = addr]]
  /\ UNCHANGED <<mode, vault, readinessProbes, addRes, req, server, srv, shut, proc>>

\* ServeHTTP is entered (by its caller, or by the background goroutine) and
\* tests h.server != nil
ServeHTTP(c, addr) ==
  /\ Running
  /\ \/ MayServe(c)
     \/ serve[c].pc = "spawned" /\ addr = serve[c].addr
  /\ IF server # NilServer
     THEN /\ serve' = [serve EXCEPT ![c] = [@ EXCEPT !.pc = "returned", !.ret = ErrRunning]]
          /\ proc' = Fatal(serve[c].bg, ErrRunning)
     ELSE /\ serve' = [serve EXCEPT ![c] = [@ EXCEPT !.pc = "new", !.addr = addr]]
          /\ proc' = proc
  /\ UNCHANGED <<mode, vault, readinessProbes, addRes, req, server, srv, shut>>

\* h.server = &http.Server{Addr: addr, Handler: h.serverMux()}
ServeAssign(c) ==
  /\ Running
  /\ serve[c].pc = "new"
  /\ server' = c
  /\ srv' = [srv EXCEPT ![c] = [NoServer EXCEPT !.addr = serve[c].addr]]
  /\ serve' = [serve EXCEPT ![c].pc = "listen"]
  /\ UNCHANGED <<mode, vault, readinessProbes, addRes, req, shut, proc>>

\* h.server.ListenAndServe(): h.server is read again; a server that is shutting
\* down answers ErrServerClosed, otherwise the address is bound or the bind fails
ListenAndServe(c) ==
  /\ Running
  /\ serve[c].pc = "listen"
  /\ LET s == server
     IN IF srv[s].inShutdown
        THEN /\ serve' = [serve EXCEPT ![c] = [@ EXCEPT !.pc = "returned", !.addr = "",
                                                         !.lerr = ErrServerClosed,
                                                         !.ret = ServeResult(ErrServerClosed)]]
             /\ proc' = Fatal(serve[c].bg, ServeResult(ErrServerClosed))
             /\ srv' = srv
        ELSE IF Bindable(srv[s].addr)
        THEN /\ serve' = [serve EXCEPT ![c] = [@ EXCEPT !.pc = "serving", !.addr = "", !.on = s]]
             /\ srv' = [srv EXCEPT ![s].listening = TRUE]
             /\ proc' = proc
        ELSE /\ serve' = [serve EXCEPT ![c] = [@ EXCEPT !.pc = "returned", !.addr = "",
                                                         !.lerr = ErrBind,
                                                         !.ret = ServeResult(ErrBind)]]
             /\ proc' = Fatal(serve[c].bg, ServeResult(ErrBind))
             /\ srv' = srv
  /\ UNCHANGED <<mode, vault, readinessProbes, addRes, req, server, shut>>

\* Accept fails while the server is not shutting down: Serve closes its
\* listener and returns the error
AcceptFails(c) ==
  /\ Running
  /\ serve[c].pc = "serving"
  /\ ~srv[serve[c].on].inShutdown
  /\ srv' = [srv EXCEPT ![serve[c].on].listening = FALSE]
  /\ serve' = [serve EXCEPT ![c] = [@ EXCEPT !.pc = "returned", !.addr = "", !.on = NilServer,
                                                  !.lerr = ErrAccept,
                                                  !.ret = ServeResult(ErrAccept)]]
  /\ proc' = Fatal(serve[c].bg, ServeResult(ErrAccept))
  /\ UNCHANGED <<mode, vault, readinessProbes, addRes, req, server, shut>>

\* Shutdown closed the listener: Serve returns ErrServerClosed
ServeClosed(c) ==
  /\ Running
  /\ serve[c].pc = "serving"
  /\ srv[serve[c].on].inShutdown
  /\ serve' = [serve EXCEPT ![c] = [@ EXCEPT !.pc = "returned", !.addr = "", !.on = NilServer,
                                                  !.lerr = ErrServerClosed,
                                                  !.ret = ServeResult(ErrServerClosed)]]
  /\ proc' = Fatal(serve[c].bg, ServeResult(ErrServerClosed))
  /\ UNCHANGED <<mode, vault, readinessProbes, addRes, req, server, srv, shut>>

\* ------------------------------------------------------------------------
\* Checker.Shutdown and the shutdown trigger
\* ------------------------------------------------------------------------
\* the trigger exists once ServeHTTPBackground has returned it
TriggerReturned == \E c \in ServeCalls : serve[c].bg

MayShutdown(k, trig) ==
  /\ mode = "server"
  /\ shut[k].pc = "idle"
  /\ \A j \in ShutdownCalls : j < k => shut[j].pc # "idle"
  /\ trig => TriggerReturned

\* h.server.Shutdown(ctx): a nil h.server is dereferenced; otherwise the server
\* is marked as shutting down and its listener is closed
Shutdown(k, trig) ==
  /\ Running
  /\ MayShutdown(k, trig)
  /\ IF server = NilServer
     THEN /\ shut' = [shut EXCEPT ![k] = [@ EXCEPT !.pc = "panicked", !.trig = trig]]
          /\ proc' = "panicked"
          /\ srv' = srv
     ELSE /\ shut' = [shut EXCEPT ![k] = [@ EXCEPT !.pc = "drain", !.trig = trig,
                                                    !.on = server]]
          /\ srv' = [srv EXCEPT ![server].inShutdown = TRUE, ![server].listening = FALSE]
          /\ proc' = proc
  /\ UNCHANGED <<mode, vault, readinessProbes, addRes, req, server, serve>>

\* no request is in flight any more: Shutdown returns nil
ShutdownDrained(k) ==
  /\ Running
  /\ shut[k].pc = "drain"
  /\ Active(shut[k].on) = {}
  /\ shut' = [shut EXCEPT ![k] = [@ EXCEPT !.pc = "returned", !.ret = NoErr]]
  /\ UNCHANGED <<mode, vault, readinessProbes, addRes, req, server, srv, serve, proc>>

\* a Shutdown that drops the error of the expired context
ShutdownTimeoutIgnored(k) ==
  /\ Running
  /\ shut[k].pc = "drain"
  /\ Active(shut[k].on) # {}
  /\ shut' = [shut EXCEPT ![k] = [@ EXCEPT !.pc = "returned", !.ret = NoErr]]
  /\ UNCHANGED <<mode, vault, readinessProbes, addRes, req, server, srv, serve, proc>>

\* the 100 ms of the context pass with a request still in flight
ShutdownTimeout(k) ==
  /\ Running
  /\ shut[k].pc = "drain"
  /\ Active(shut[k].on) # {}
  /\ shut' = [shut EXCEPT ![k] = [@ EXCEPT !.pc = "returned", !.ret = ErrDeadline]]
  /\ proc' = Fatal(shut[k].trig, ErrDeadline)
  /\ UNCHANGED <<mode, vault, readinessProbes, addRes, req, server, srv, serve>>

\* ------------------------------------------------------------------------
\* VaultProbe
\* ------------------------------------------------------------------------
\* a probe that does not look at hc.Standby
VaultProbeNoStandby(h) ==
  IF h.err # NoErr THEN "could not get vault health: " \o h.err
  ELSE IF ~h.initialized THEN "vault is not initialized"
  ELSE IF h.sealed THEN "vault is sealed"
  ELSE NoErr

\* the closure VaultProbe returns, for what hr.Health() hands back
VaultProbe(h) ==
  IF h.err # NoErr THEN "could not get vault health: " \o h.err
  ELSE IF ~h.initialized THEN "vault is not initialized"
  ELSE IF h.sealed THEN "vault is sealed"
  ELSE IF h.standby THEN "vault is on standby"
  ELSE NoErr

\* the Vault server changes: hr.Health() hands back something else from now on
VaultChanges(h) ==
  /\ mode = "vault"
  /\ h # vault.health
  /\ vault' = [vault EXCEPT !.health = h]
  /\ UNCHANGED <<mode, readinessProbes, addRes, req, proc, life>>

\* the probe is called
CallVaultProbe ==
  /\ mode = "vault"
  /\ vault' = [vault EXCEPT !.asked = vault.health, !.out = VaultProbe(vault.health)]
  /\ UNCHANGED <<mode, readinessProbes, addRes, req, proc, life>>

\* ------------------------------------------------------------------------
\* Specification
\* ------------------------------------------------------------------------
InitChecker ==
  /\ readinessProbes = NilMap
  /\ addRes = [service |-> "", probe |-> 0, panicked |-> FALSE]
  /\ req = [r \in Requests |-> IdleReq]
  /\ server = NilServer
  /\ srv = [c \in ServeCalls |-> NoServer]
  /\ serve = [c \in ServeCalls |-> IdleServe]
  /\ shut = [k \in ShutdownCalls |-> IdleShut]
  /\ proc = "running"

Init == mode \in {"handler", "server"} /\ InitChecker /\ vault = NoVault

InitHandler == mode = "handler" /\ InitChecker /\ vault = NoVault

\* registration, the two handlers and runProbes
NextHandler ==
  \/ \E s \in ClientNames : MayRegister /\ AddReadinessProbe(s, FreshProbe)
  \/ \E r \in Requests, via \in {Direct} \cup ServeCalls : HandleAlive(r, via)
  \/ \E r \in Requests, via \in {Direct} \cup ServeCalls : HandleReady(r, via)
  \/ \E r \in Requests, n \in Names : RangeNext(r, n)
  \/ \E r \in Requests : RangeEnd(r)
  \/ \E r \in Requests, n \in Names, e \in Errors \cup {NoErr} : ProbeReturn(r, n, e)
  \/ \E r \in Requests, n \in Names : MLock(r, n)
  \/ \E r \in Requests, n \in Names : AppendWrite(r, n)
  \/ \E r \in Requests, n \in Names : WgDone(r, n)
  \/ \E r \in Requests : Respond(r)

\* a step of the evaluation of request r: its loop, its goroutines, its answer
EvalStep(r) ==
  \/ \E n \in Names : RangeNext(r, n)
  \/ RangeEnd(r)
  \/ \E n \in Names, e \in Errors \cup {NoErr} : ProbeReturn(r, n, e)
  \/ \E n \in Names : MLock(r, n)
  \/ \E n \in Names : AppendWrite(r, n)
  \/ \E n \in Names : WgDone(r, n)
  \/ Respond(r)

\* the handlers with probes that may block for good
NextHang == \E r \in Requests, n \in Names : ProbeHangs(r, n)

NextProbes == NextHandler \/ NextHang

\* the handlers with requests for any path
NextNotFound ==
  \E r \in Requests, via \in {Direct} \cup ServeCalls, path \in Paths :
    HandleNotFound(r, via, path)

NextMux == NextHandler \/ NextNotFound

\* the scheduler runs every runnable goroutine in the end; a probe that does
\* not block for good returns
Fairness == \A r \in Requests : WF_vars(EvalStep(r))

InitLifecycle == mode = "server" /\ InitChecker /\ vault = NoVault

\* the lifecycle of the Checker's own server while it handles no request
NextLifecycle ==
  \/ \E c \in ServeCalls, a \in Addrs : ServeHTTPBackground(c, a)
  \/ \E c \in ServeCalls, a \in Addrs : ServeHTTP(c, a)
  \/ \E c \in ServeCalls : ServeAssign(c)
  \/ \E c \in ServeCalls : ListenAndServe(c)
  \/ \E c \in ServeCalls : AcceptFails(c)
  \/ \E c \in ServeCalls : ServeClosed(c)
  \/ \E k \in ShutdownCalls, trig \in BOOLEAN : Shutdown(k, trig)
  \/ \E k \in ShutdownCalls : ShutdownDrained(k)

\* the lifecycle of the Checker's own server
NextServer ==
  \/ NextLifecycle
  \/ \E k \in ShutdownCalls : ShutdownTimeout(k)

Next == NextHandler \/ NextHang \/ NextNotFound \/ NextServer

\* the Checker with either client
Spec == Init /\ [][Next]_vars

\* the Checker with the "handler" client
SpecHandler == InitHandler /\ [][NextHandler]_vars

\* the Checker with the "handler" client, probes that may block for good and
\* a fair scheduler
SpecProbes == InitHandler /\ [][NextProbes]_vars /\ Fairness

\* the Checker with the "burst" client: the probes are registered, then all
\* requests are sent at once and their evaluations overlap
InitBurst == mode = "burst" /\ InitChecker /\ vault = NoVault

SpecBurst == InitBurst /\ [][NextHandler]_vars

\* the Checker with the "handler" client asking for any path
SpecMux == InitHandler /\ [][NextMux]_vars

\* a VaultProbe called again and again on a Vault server in any health
InitVault ==
  /\ mode = "vault"
  /\ InitChecker
  /\ \E h \in Healths : vault = [health |-> h, asked |-> h, out |-> NotCalled]

NextVault ==
  \/ \E h \in Healths : VaultChanges(h)
  \/ CallVaultProbe

SpecVault == InitVault /\ [][NextVault]_vars

\* the Checker started and stopped with no probe and no request, as in
\* TestChecker_ServeHttp and TestChecker_ServeHttpBackground
SpecLifecycle == InitLifecycle /\ [][NextLifecycle]_vars

\* ------------------------------------------------------------------------
\* Properties
\* ------------------------------------------------------------------------
\* the step in which the /ready handler of request r answers
Responds(r) == req[r].pc = "wait" /\ req'[r].pc = "done"

\* the probes of request r's evaluation that returned an error
Failed(r) == {n \in Names : req[r].g[n].pc # "none" /\ req[r].g[n].err # NoErr}

\* the evaluation of request r ran over the registry as it was registered:
\* no registration raced with its range loop
Stable(r) == ~req[r].raced

\* C1: whenever at least one registered probe fails, in every interleaving of
\* the probe goroutines, /ready answers 503 with ready=false and the reasons
\* are, as a set, exactly "<name>: <error message>" of the failing probes, one
\* entry per failing probe, none lost, none duplicated, none for a succeeding
\* probe.
C1_FailingProbesReported ==
  [][\A r \in Requests :
       (Responds(r) /\ Stable(r) /\ Failed(r) # {})
         => /\ Failed(r) \subseteq req[r].keys0
            /\ req'[r].status = 503
            /\ req'[r].body.ready = FALSE
            /\ "reasons" \in DOMAIN req'[r].body
            /\ Range(req'[r].body.reasons) =
                 {n \o ": " \o req[r].g[n].err : n \in Failed(r)}
            /\ Len(req'[r].body.reasons) = Cardinality(Failed(r))]_vars

\* a /ready request answered 503 with the reasons of two failing probes
C1_Witness ==
  \E r \in Requests :
    /\ req[r].pc = "done" /\ req[r].route = "/ready"
    /\ req[r].status = 503
    /\ "reasons" \in DOMAIN req[r].body
    /\ Range(req[r].body.reasons) = {"db: unhealthy", "cache: unhealthy"}

\* C2: whenever no registered probe fails, the empty registry included, /ready
\* answers 200 with the body {"ready":true}, which has no reasons key.
C2_AllHealthyReady ==
  [][\A r \in Requests :
       (Responds(r) /\ Stable(r) /\ Failed(r) = {})
         => /\ req'[r].status = 200
            /\ DOMAIN req'[r].body = {"ready"}
            /\ req'[r].body.ready = TRUE]_vars

\* a /ready request over two registered probes answered 200 {"ready":true}
C2_Witness ==
  \E r \in Requests :
    /\ req[r].pc = "done" /\ req[r].route = "/ready"
    /\ req[r].keys0 = Names
    /\ req[r].status = 200
    /\ req[r].body = [ready |-> TRUE]

\* C3: AddReadinessProbe with a name that is already registered panics and
\* leaves the registry as it was: the name keeps the probe of the first
\* registration and no entry is added or removed.
C3_DuplicateNamePanics ==
  [][(addRes' # addRes /\ addRes'.service \in Keys(readinessProbes))
       => /\ addRes'.panicked
          /\ proc' = "panicked"
          /\ readinessProbes' = readinessProbes]_vars

\* a second registration of a name has panicked and the name still maps to
\* the first probe
C3_Witness ==
  /\ addRes.panicked
  /\ proc = "panicked"
  /\ addRes.service \in Keys(readinessProbes)
  /\ readinessProbes.entries[addRes.service] # addRes.probe

\* C4: /alive is always answered 200 {"alive":true}, whatever is registered
\* and whatever the probes return, also while a readiness request is blocked
\* in a probe; handling it invokes no probe.
C4_AliveAlwaysOK ==
  \A r \in Requests :
    req[r].route = "/alive"
      => /\ req[r].pc = "done"
         /\ req[r].status = 200
         /\ req[r].body = [alive |-> TRUE]
         /\ \A n \in Names : req[r].g[n].pc = "none"
         /\ req[r].wg = 0

\* /alive was answered while a readiness request is blocked in a probe
C4_Witness ==
  \E r, q \in Requests :
    /\ q < r
    /\ req[r].route = "/alive" /\ req[r].pc = "done" /\ req[r].status = 200
    /\ req[q].route = "/ready" /\ req[q].pc = "wait"
    /\ \E n \in Names : req[q].g[n].pc = "probing"

\* C5: Shutdown on a Checker on which no server was ever started completes
\* and does not panic.
C5_ShutdownNeverStartedCompletes ==
  \A k \in ShutdownCalls :
    (~shut[k].trig /\ \A c \in ServeCalls : serve[c].pc = "idle")
      => shut[k].pc # "panicked"

\* the step in which ServeHTTP call c is entered and tests h.server
Enters(c) == serve[c].pc \in {"idle", "spawned"} /\ serve'[c].pc \notin {"idle", "spawned"}

\* a ServeHTTP call was ended by a Shutdown that has completed, and no
\* ServeHTTP call is under way
IdleAfterShutdown ==
  /\ \E d \in ServeCalls : serve[d].pc = "returned" /\ serve[d].lerr = ErrServerClosed
  /\ \E k \in ShutdownCalls : shut[k].pc = "returned" /\ shut[k].ret = NoErr
  /\ \A d \in ServeCalls : serve[d].pc \in {"idle", "spawned", "returned"}

\* C6: after a ServeHTTP call was ended by a completed Shutdown, a new
\* ServeHTTP call on the same Checker is accepted, not rejected as running.
C6_ServeAgainAfterShutdown ==
  [][\A c \in ServeCalls :
       (Enters(c) /\ IdleAfterShutdown) => serve'[c].ret # ErrRunning]_vars

\* C7: ServeHTTP on a Checker that records the server of an earlier ServeHTTP
\* call, with no Shutdown since, returns an error at once, binds nothing and
\* leaves the recorded server in place.
C7_SecondServeRejected ==
  [][\A c \in ServeCalls :
       (Enters(c) /\ server # NilServer /\ ~srv[server].inShutdown)
         => /\ serve'[c].pc = "returned"
            /\ serve'[c].ret = ErrRunning
            /\ server' = server
            /\ srv' = srv]_vars

\* a ServeHTTP call was rejected while the server of another call listens
C7_Witness ==
  \E c, d \in ServeCalls :
    /\ c # d
    /\ serve[c].pc = "returned" /\ serve[c].ret = ErrRunning
    /\ serve[d].pc = "serving" /\ server = d /\ srv[d].listening

\* C8: the trigger returned by ServeHTTPBackground, invoked at any moment
\* after ServeHTTPBackground returned, does not panic and returns with the
\* background server stopped.
C8_TriggerShutsDown ==
  \A k \in ShutdownCalls :
    shut[k].trig
      => /\ shut[k].pc # "panicked"
         /\ shut[k].pc = "returned" => ~srv[shut[k].on].listening

\* the step in which ServeHTTP call c returns
Returns(c) == serve[c].pc # "returned" /\ serve'[c].pc = "returned"

\* the call is in ListenAndServe on a server that Shutdown was called on
ByShutdown(c) ==
  \/ serve[c].pc = "listen" /\ srv[server].inShutdown
  \/ serve[c].pc = "serving" /\ srv[serve[c].on].inShutdown

\* C9: ServeHTTP returns nil exactly when Shutdown ended it, and an error when
\* the address cannot be bound or the listener fails otherwise.
C9_NilExactlyOnShutdown ==
  [][\A c \in ServeCalls :
       Returns(c)
         => /\ serve'[c].ret = NoErr <=> ByShutdown(c)
            /\ serve'[c].lerr \in {ErrBind, ErrAccept} => serve'[c].ret # NoErr]_vars

\* a serving ServeHTTP call has returned nil after a Shutdown that completed
C9_Witness ==
  \E c \in ServeCalls, k \in ShutdownCalls :
    /\ serve[c].pc = "returned" /\ serve[c].ret = NoErr
    /\ serve[c].lerr = ErrServerClosed
    /\ shut[k].pc = "returned" /\ shut[k].on = c /\ ~srv[c].listening

\* C10: every /ready request invokes every registered probe anew and its
\* answer is given by what the probes return during that request alone: it
\* differs from an earlier answer whenever the outcomes differ.
C10_NoCaching ==
  [][\A r \in Requests :
       (Responds(r) /\ Stable(r))
         => /\ \A n \in req[r].keys0 : req[r].g[n].pc = "done"
            /\ req'[r].body.ready = (Failed(r) = {})
            /\ \A q \in Requests \ {r} :
                 (req[q].pc = "done" /\ req[q].route = "/ready"
                    /\ req[q].body.ready # (Failed(r) = {}))
                   => req'[r].body # req[q].body]_vars

\* two answered /ready requests over the same probes with different answers
C10_Witness ==
  \E r, q \in Requests :
    /\ q < r
    /\ req[q].pc = "done" /\ req[q].route = "/ready" /\ req[q].status = 503
    /\ req[r].pc = "done" /\ req[r].route = "/ready" /\ req[r].status = 200
    /\ req[q].keys0 = req[r].keys0 /\ req[r].keys0 # {}

\* the evaluation of request r is under way
Evaluating(r) == req[r].pc \in {"range", "wait"}

\* a probe of request r's evaluation blocks for good
Hung(r) == \E n \in Names : req[r].g[n].pc = "hung"

\* C11: an evaluation returns exactly when all its probes return: with every
\* probe returning the request is answered in the end (unless the process
\* dies), and with a probe that never returns the request is never answered.
C11_TerminatesWithProbes ==
  \A r \in Requests :
    /\ Evaluating(r) ~> (req[r].pc = "done" \/ Hung(r) \/ ~Running)
    /\ [](Hung(r) => [](req[r].pc # "done"))

\* an evaluation whose other probe has returned waits on a probe that hangs
C11_Witness ==
  \E r \in Requests :
    /\ req[r].pc = "wait" /\ req[r].wg = 1
    /\ req[r].g["db"].pc = "hung" /\ req[r].g["cache"].pc = "done"

\* Shutdown call k returns while the server it stops still handles a request
TimesOut(k) ==
  /\ shut[k].pc = "drain" /\ shut'[k].pc = "returned"
  /\ Active(shut[k].on) # {}

\* C12: a Shutdown whose server has not drained its requests when the 100 ms
\* are over returns a non-nil error, and the trigger of ServeHTTPBackground
\* ends the process on it.
C12_TimeoutIsError ==
  [][\A k \in ShutdownCalls :
       TimesOut(k) => /\ shut'[k].ret # NoErr
                      /\ shut[k].trig => proc' = "fatal"]_vars

\* the trigger's Shutdown timed out on a request in flight: the process is gone
C12_Witness ==
  \E k \in ShutdownCalls :
    /\ shut[k].pc = "returned" /\ shut[k].trig
    /\ shut[k].ret = ErrDeadline
    /\ Active(shut[k].on) # {}
    /\ proc = "fatal"

\* the request was answered by the liveness handler
AnsweredAlive(r) == req[r].status = StatusOK /\ req[r].body = AliveBody

\* the request was answered by the readiness handler
AnsweredReady(r) ==
  /\ req[r].status \in {StatusOK, StatusServiceUnavailable}
  /\ "ready" \in DOMAIN req[r].body

\* C13: the Checker's endpoints are at /.well-known/alive (liveness) and
\* /.well-known/ready (readiness): a request to either path is answered by
\* that handler.
C13_WellKnownPaths ==
  \A r \in Requests :
    req[r].pc = "done" =>
      /\ req[r].route = "/.well-known/alive" => AnsweredAlive(r)
      /\ req[r].route = "/.well-known/ready" => AnsweredReady(r)

\* the body holds the value true
BodyHasTrue(b) ==
  \/ "alive" \in DOMAIN b /\ b.alive
  \/ "ready" \in DOMAIN b /\ b.ready

\* C14: with no probe registered a GET of /healthy on the serverMux handler
\* is answered with status 200 and a body that contains true.
C14_HealthyOK ==
  \A r \in Requests :
    (req[r].pc = "done" /\ req[r].route = "/healthy" /\ Keys(readinessProbes) = {})
      => req[r].status = StatusOK /\ BodyHasTrue(req[r].body)

\* the health a probe should pass on: no error, initialized, unsealed, active
Usable(h) == h.err = NoErr /\ h.initialized /\ ~h.sealed /\ ~h.standby

\* C15: the probe built by VaultProbe returns no error exactly when Health
\* returns no error and the response is initialized, not sealed and not on
\* standby; for every other combination of the four it returns an error.
C15_VaultProbeExact ==
  vault.out # NotCalled => (vault.out = NoErr <=> Usable(vault.asked))

\* the probe was called on an initialized, unsealed Vault server on standby
C15_Witness ==
  /\ vault.out = "vault is on standby"
  /\ vault.asked.err = NoErr /\ vault.asked.initialized /\ ~vault.asked.sealed
  /\ vault.asked.standby

\* C16: in one evaluation every registered probe is invoked exactly once and
\* the evaluator returns only after every invocation has completed: a probe
\* that fails neither ends the evaluation early nor keeps another from running.
C16_EachProbeOnce ==
  [][\A r \in Requests :
       (Responds(r) /\ Stable(r))
         => /\ req[r].wg = 0
            /\ \A n \in Names :
                 IF n \in req[r].keys0
                 THEN req[r].g[n].calls = 1 /\ req[r].g[n].pc = "done"
                 ELSE req[r].g[n].calls = 0 /\ req[r].g[n].pc = "none"]_vars

\* an evaluation about to return: one probe failed, the other ran to its end
C16_Witness ==
  \E r \in Requests :
    /\ req[r].pc = "wait" /\ req[r].wg = 0 /\ req[r].keys0 = Names /\ Stable(r)
    /\ req[r].g["db"].pc = "done" /\ req[r].g["db"].err # NoErr
    /\ req[r].g["db"].calls = 1
    /\ req[r].g["cache"].pc = "done" /\ req[r].g["cache"].err = NoErr
    /\ req[r].g["cache"].calls = 1

\* C17: the probes of one evaluation run concurrently: the loop starts each
\* probe whatever the others are doing, and a probe in flight can return
\* whatever the others are doing, so all registered probes can be in flight
\* at once and none waits for a slow one.
C17_ProbesConcurrent ==
  \A r \in Requests, n \in Names :
    Running =>
      /\ (req[r].pc = "range" /\ n \in Keys(readinessProbes) \ Visited(r))
           => ENABLED RangeNext(r, n)
      /\ req[r].g[n].pc = "probing" => ENABLED ProbeReturn(r, n, NoErr)

\* every registered probe of one evaluation is in flight at the same time
C17_Witness ==
  \E r \in Requests :
    /\ req[r].keys0 = Names /\ req[r].wg = Cardinality(Names)
    /\ \A n \in Names : req[r].g[n].pc = "probing"

\* C18: the registry map is guarded by one synchronization primitive on the
\* side of AddReadinessProbe and on the side of the readiness handler: no
\* AddReadinessProbe writes the map while an evaluation's loop reads it.
C18_RegistrySynchronized ==
  \A r \in Requests : ~req[r].raced

\* the calls of ServeHTTP that passed the test of h.server and have not returned
Passed == {c \in ServeCalls : serve[c].pc \in {"new", "listen", "serving"}}

\* the servers of the Checker that listen
Listening == {c \in ServeCalls : srv[c].listening}

\* C19: a Checker has at most one listening server at any time, also with two
\* ServeHTTP calls running concurrently: at most one of them creates and binds
\* a server, the other returns the already-running error.
C19_AtMostOneServer ==
  /\ Cardinality(Listening) <= 1
  /\ Cardinality(Passed) <= 1

\* a start has failed on its bind, no call is past the test of h.server, no
\* server listens and Shutdown was never called
IdleAfterFailedStart ==
  /\ \E c \in ServeCalls : serve[c].pc = "returned" /\ serve[c].lerr = ErrBind
  /\ Passed = {} /\ Listening = {}
  /\ \A k \in ShutdownCalls : shut[k].pc = "idle"

\* C20: a start that fails leaves the Checker idle: after ServeHTTP has
\* returned the error of a failed bind, a following ServeHTTP call is not
\* rejected as already running.
C20_IdleAfterFailedStart ==
  [][\A c \in ServeCalls :
       (Enters(c) /\ IdleAfterFailedStart) => serve'[c].ret # ErrRunning]_vars

\* the reasons, the lock and the wait group of request r's evaluation
Locals(r) == <<req[r].reasons, req[r].m, req[r].wg>>

\* the same after the step
LocalsNext(r) == <<req'[r].reasons, req'[r].m, req'[r].wg>>

\* the number of reasons in a response body
ReasonCount(b) == IF "reasons" \in DOMAIN b THEN Len(b.reasons) ELSE 0

\* C21: readiness evaluations that run at the same time are isolated: a step
\* that touches the reasons, the lock or the wait group of one evaluation
\* leaves those of every other evaluation alone, and the answer to a request
\* holds exactly one reason per probe that failed in its own evaluation.
C21_EvaluationsIsolated ==
  [][\A r \in Requests :
       /\ LocalsNext(r) # Locals(r)
            => \A q \in Requests \ {r} : LocalsNext(q) = Locals(q)
       /\ (Responds(r) /\ Stable(r))
            => /\ ReasonCount(req'[r].body) = Cardinality(Failed(r))
               /\ \A i \in 1..ReasonCount(req'[r].body) :
                    \E n \in Failed(r) :
                      req'[r].body.reasons[i] = Sprintf(n, req[r].g[n].err)]_vars

\* two evaluations in flight at once: one has collected the failure of its
\* probe, in the other every probe came back healthy
C21_Witness ==
  \E r, q \in Requests :
    /\ r # q
    /\ req[r].pc = "wait" /\ req[q].pc = "wait"
    /\ req[r].keys0 = Names /\ req[q].keys0 = Names
    /\ Len(req[r].reasons) = 1 /\ req[r].wg = 0
    /\ req[q].reasons = <<>> /\ req[q].wg = 0
    /\ \A n \in Names : req[q].g[n].pc = "done" /\ req[q].g[n].err = NoErr
====
